---- MODULE Spec2Model ----
(***************************************************************************)
(* Model of cmd/got/main.go: the orchestration controller of the got       *)
(* downloader.  The main goroutine runs run() (stdin lines, batch-file     *)
(* lines, header flags, positional arguments, in that textual order),      *)
(* blocking in g.Do for every URL; the signal-listener goroutine waits on  *)
(* interruptChan, cancels the context, stops the notification and exits    *)
(* through log.Fatal.                                                      *)
(*                                                                         *)
(* Strings are sequences of one-character strings, so that TrimSpace,      *)
(* SplitN and url.Parse are computed and not assumed.                      *)
(***************************************************************************)
EXTENDS Integers, Sequences, FiniteSets, TLC

\* ------------------------------------------------------------------ bounds
MaxLines   == 2   \* lines a scanner yields per line source (stdin, batch file)
MaxArgs    == 1   \* positional arguments
MaxBytes   == 1   \* size of a downloaded file
MaxHdrLen  == 3   \* characters of a --header flag taken from HdrChars
MaxURLLen  == 3   \* characters of a candidate taken from URLChars

\* ------------------------------------------------------- strings and sets
WhiteSpace == {" ", "\t"}
Letters    == {"a", "b", "d", "h", "k", "p", "s", "t", "v", "x"}

RECURSIVE SeqsUpTo(_, _)
SeqsUpTo(S, n) ==
    IF n = 0 THEN {<<>>}
    ELSE LET shorter == SeqsUpTo(S, n - 1)
         IN  shorter \cup {Append(s, e) : s \in {t \in shorter : Len(t) = n - 1}, e \in S}

\* What a scanner can yield as one line of piped stdin, of the batch file.
LineSet(s) ==
    IF s = "stdin" THEN { <<>>, <<" ", "a", "\t">>, <<":">> }
    ELSE { <<"\t", " ">>, <<"b">>, <<":", "b">> }
\* What the command line can carry as a positional argument.
ArgSet == { <<"d">>, <<":", "d">> }
\* The --header flags the command line can carry: none, well-formed ones, a
\* malformed one after a well-formed one.
GoodHeader  == <<"k", ":", " ", "v">>
GoodHeader2 == <<"x", ":", "v", ":", "v", " ">>
BadHeader   == <<"x">>
HeaderFlags ==
    { <<>>, <<GoodHeader, GoodHeader2>>, <<GoodHeader, BadHeader>> }
\* Every short --header flag over a key character, the colon and a blank,
\* alone or after a well-formed flag.
HdrChars  == {"k", ":", " "}
AnyHeader ==
    { pre \o << h >> : pre \in { <<>>, << GoodHeader >> },
                       h \in SeqsUpTo(HdrChars, MaxHdrLen) }
\* Every short candidate over a letter, the colon, the slash and a blank.
URLChars == {"a", ":", "/", " "}
AnyURL   == SeqsUpTo(URLChars, MaxURLLen)

\* strings.TrimSpace
RECURSIVE TrimLeft(_)
TrimLeft(s) ==
    IF s # <<>> /\ Head(s) \in WhiteSpace THEN TrimLeft(Tail(s)) ELSE s

RECURSIVE TrimRight(_)
TrimRight(s) ==
    IF s # <<>> /\ s[Len(s)] \in WhiteSpace
    THEN TrimRight(SubSeq(s, 1, Len(s) - 1)) ELSE s

TrimSpace(s) == TrimRight(TrimLeft(s))

\* strings.Index for a one-character separator: 0 when absent.
IndexOf(s, ch) ==
    IF \E i \in 1..Len(s) : s[i] = ch
    THEN CHOOSE i \in 1..Len(s) : s[i] = ch /\ \A j \in 1..(i - 1) : s[j] # ch
    ELSE 0

SplitN2_lastColon(h) ==
    LET cs == {i \in 1..Len(h) : h[i] = ":"}
    IN  IF cs = {} THEN << h >>
        ELSE LET i == CHOOSE k \in cs : \A m \in cs : m <= k
             IN  << SubSeq(h, 1, i - 1), SubSeq(h, i + 1, Len(h)) >>

\* strings.SplitN(h, ":", 2)
SplitN2(h) ==
    LET i == IndexOf(h, ":")
    IN  IF i = 0 THEN << h >>
        ELSE << SubSeq(h, 1, i - 1), SubSeq(h, i + 1, Len(h)) >>

\* ------------------------------------------------------------------ errors
Err(kind, detail) == [kind |-> kind, detail |-> detail]
Nil               == Err("nil", <<>>)
ErrDownloadAborted == Err("aborted", <<>>)
ErrEngine         == Err("engine", <<>>)
IsErr(e)          == e # Nil

\* ------------------------------------------------- net/url, as getURL uses it
\* The alphabet of the modelled strings: Letters, Digits, WhiteSpace and the
\* delimiters ":", "/" and "%".  Upper case, "?", "#", "@" and "[" do not occur.
Digits    == {"0", "2"}
HexDigits == Digits \cup {"a", "b", "d"}
IsCTL(ch) == ch = "\t"

HasPrefix(s, p) == Len(s) >= Len(p) /\ SubSeq(s, 1, Len(p)) = p

\* url.getScheme: letters, then digits once past the first byte, up to ":".
RECURSIVE GetSchemeAt(_, _)
GetSchemeAt(raw, i) ==
    LET none == [scheme |-> <<>>, rest |-> raw, err |-> FALSE]
    IN  IF i > Len(raw) THEN none
        ELSE IF raw[i] \in Letters THEN GetSchemeAt(raw, i + 1)
        ELSE IF raw[i] \in Digits
             THEN IF i = 1 THEN none ELSE GetSchemeAt(raw, i + 1)
        ELSE IF raw[i] = ":"
             THEN IF i = 1
                  THEN [scheme |-> <<>>, rest |-> <<>>, err |-> TRUE]
                  ELSE [scheme |-> SubSeq(raw, 1, i - 1),
                        rest   |-> SubSeq(raw, i + 1, Len(raw)),
                        err    |-> FALSE]
        ELSE none

getScheme(raw) == GetSchemeAt(raw, 1)

\* url.unescape: every "%" is followed by two hex digits; in a host no escape
\* the alphabet can spell is allowed ("%25" needs a "5"), and a space is no
\* host character.
RECURSIVE EscapesOK(_, _)
EscapesOK(s, host) ==
    IF s = <<>> THEN TRUE
    ELSE IF Head(s) = "%"
         THEN /\ Len(s) >= 3
              /\ s[2] \in HexDigits /\ s[3] \in HexDigits
              /\ ~host
              /\ EscapesOK(SubSeq(s, 4, Len(s)), host)
    ELSE IF host /\ Head(s) = " " THEN FALSE
    ELSE EscapesOK(Tail(s), host)

\* The only escape the alphabet can spell that decodes into the alphabet is
\* "%20"; any other valid escape decodes to a byte written "x" here.
RECURSIVE Unescape(_)
Unescape(s) ==
    IF s = <<>> THEN <<>>
    ELSE IF Head(s) = "%"
         THEN (IF SubSeq(s, 1, 3) = <<"%", "2", "0">> THEN <<" ">> ELSE <<"x">>)
              \o Unescape(SubSeq(s, 4, Len(s)))
    ELSE <<Head(s)>> \o Unescape(Tail(s))

\* url.escape in path mode, on an unescaped path: a space becomes "%20".
RECURSIVE Escape(_)
Escape(s) ==
    IF s = <<>> THEN <<>>
    ELSE (IF Head(s) = " " THEN <<"%", "2", "0">> ELSE <<Head(s)>>) \o Escape(Tail(s))

\* URL.EscapedPath: the raw path when it is a valid encoding of Path, else
\* the default encoding of Path.
EscapedPath(raw) ==
    IF \A i \in 1..Len(raw) : raw[i] # " " THEN raw ELSE Escape(Unescape(raw))

\* Host and port: the part after the last ":" must be a decimal port.
HostOK(h) ==
    /\ EscapesOK(h, TRUE)
    /\ \A i \in 1..Len(h) :
          (h[i] = ":" /\ \A j \in (i + 1)..Len(h) : h[j] # ":")
              => \A j \in (i + 1)..Len(h) : h[j] \in Digits

\* url.Parse: the parsed URL as [err, scheme, opaque, host, path, omitHost];
\* OmitHost marks a URL with a scheme and a rooted path but no authority.
ParseURL(raw) ==
    LET bad == [err |-> TRUE, scheme |-> <<>>, opaque |-> <<>>,
                host |-> <<>>, path |-> <<>>, omitHost |-> FALSE]
        g   == getScheme(raw)
    IN  IF \E i \in 1..Len(raw) : IsCTL(raw[i]) THEN bad
        ELSE IF g.err THEN bad
        ELSE IF ~HasPrefix(g.rest, <<"/">>) /\ g.scheme # <<>>
             THEN [err |-> FALSE, scheme |-> g.scheme, opaque |-> g.rest,
                   host |-> <<>>, path |-> <<>>, omitHost |-> FALSE]
        ELSE IF /\ ~HasPrefix(g.rest, <<"/">>)
                /\ LET sl  == IndexOf(g.rest, "/")
                       seg == IF sl = 0 THEN g.rest ELSE SubSeq(g.rest, 1, sl - 1)
                   IN  IndexOf(seg, ":") # 0
             THEN bad
        ELSE LET auth == /\ HasPrefix(g.rest, <<"/", "/">>)
                         /\ (g.scheme # <<>> \/ ~HasPrefix(g.rest, <<"/", "/", "/">>))
                 body == IF auth THEN SubSeq(g.rest, 3, Len(g.rest)) ELSE g.rest
                 sl   == IndexOf(body, "/")
                 host == IF ~auth THEN <<>>
                         ELSE IF sl = 0 THEN body ELSE SubSeq(body, 1, sl - 1)
                 path == IF ~auth THEN body
                         ELSE IF sl = 0 THEN <<>> ELSE SubSeq(body, sl, Len(body))
             IN  IF ~HostOK(host) \/ ~EscapesOK(path, FALSE) THEN bad
                 ELSE [err |-> FALSE, scheme |-> g.scheme, opaque |-> <<>>,
                       host |-> host, path |-> path,
                       omitHost |-> ~auth /\ g.scheme # <<>>
                                          /\ HasPrefix(g.rest, <<"/">>)]

\* URL.String
URLString(u) ==
    LET sch  == IF u.scheme # <<>> THEN u.scheme \o <<":">> ELSE <<>>
        p    == EscapedPath(u.path)
        auth == IF /\ u.scheme # <<>> \/ u.host # <<>>
                   /\ ~(u.omitHost /\ u.host = <<>>)
                   /\ u.host # <<>> \/ u.path # <<>>
                THEN <<"/", "/">> \o u.host ELSE <<>>
        sep  == IF p # <<>> /\ Head(p) # "/" /\ u.host # <<>> THEN <<"/">> ELSE <<>>
    IN  IF u.opaque # <<>> THEN sch \o u.opaque
        ELSE sch \o auth \o sep \o p

Https == <<"h", "t", "t", "p", "s">>

\* getURL: [err, url]
getURL(URL) ==
    LET u == ParseURL(URL)
    IN  IF u.err THEN [err |-> Err("parse", URL), url |-> <<>>]
        ELSE [err |-> Nil,
              url |-> URLString(IF u.scheme = <<>>
                                THEN [u EXCEPT !.scheme = Https] ELSE u)]

\* ------------------------------------------------------------------- state
VARIABLES
    args,          \* c.Args().Slice()
    header,        \* c.StringSlice("header")
    dir,           \* c.String("dir")
    stdinRead,     \* lines the stdin scanner has yielded so far
    fileRead,      \* lines the batch-file scanner has yielded so far
    scanErr,       \* a scanner has stopped on a read error (its Err() is set)
    pc,            \* position of the main goroutine
    src,           \* source of the URL being downloaded
    cur,           \* the url variable of the running loop iteration
    argi,          \* index of the positional argument being processed
    HeaderSlice,   \* the package variable HeaderSlice
    runErr,        \* what run returned to main
    doErr,         \* what g.Do returned to download
    mkdirErr,      \* what os.MkdirAll returned (run drops it)
    inflight,      \* requests handed to the engine that have not returned
    succeeded,     \* calls of g.Do that have returned nil
    dl,            \* the download in the engine: d.TotalSize(), d.Size()
    bar,           \* the progress bar p: its maximum and its position
    lastCb,        \* ProgressFunc calls of this download: "none", or the last
                   \* one brought "new" values or the "same" as the one before
    dispatched,    \* every request handed to the engine, in submission order
    out,           \* completion markers printed, in order
    logged,        \* errors written by log.Fatal, in order
    exited,        \* the process has terminated
    exitCode,      \* its exit status
    ctx,           \* the run context: "Active" or "Cancelled"
    cancels,       \* Active-to-Cancelled transitions made so far
    lpc,           \* position of the signal-listener goroutine
    interruptChan, \* signals buffered in interruptChan (capacity 1)
    notifying      \* signal.Notify is in force (signal.Stop not yet called)

inputVars  == << args, header, dir >>
readVars   == << stdinRead, fileRead, scanErr >>
mainVars   == << pc, src, cur, argi, HeaderSlice, runErr, doErr >>
engineVars == << inflight, dispatched, succeeded >>
barVars    == << dl, bar, lastCb >>
outVars    == << out, logged >>
exitVars   == << exited, exitCode >>
sigVars    == << lpc, interruptChan, notifying >>
ctxVars    == << ctx, cancels >>
vars == << inputVars, readVars, mainVars, mkdirErr, engineVars, barVars,
           outVars, exitVars, sigVars, ctxVars >>

Interval == 150

\* The --dir flag: not given, or the name of a directory.
DirFlags == {"", "d"}

\* A download the engine has not started: nothing known, nothing transferred.
NewDownload == [TotalSize |-> 0, Size |-> 0]

\* What run starts from, its flags and its position aside.
Fresh ==
    /\ stdinRead = <<>> /\ fileRead = <<>> /\ scanErr = FALSE
    /\ src = "stdin" /\ cur = <<>> /\ argi = 0
    /\ HeaderSlice = <<>>
    /\ runErr = Nil /\ doErr = Nil /\ mkdirErr = Nil
    /\ inflight = 0 /\ dispatched = <<>> /\ succeeded = 0
    /\ dl = NewDownload /\ lastCb = "none"
    /\ bar = [max |-> 0, currentNum |-> 0]
    /\ out = <<>> /\ logged = <<>>
    /\ exited = FALSE /\ exitCode = 0
    /\ ctx = "Active" /\ cancels = 0
    /\ lpc = "recv" /\ interruptChan = 0 /\ notifying = TRUE

\* The process when run is entered, whatever the --dir flag.
InitState ==
    /\ args \in SeqsUpTo(ArgSet, MaxArgs)
    /\ header \in HeaderFlags
    /\ pc = "stat"
    /\ Fresh

\* A run without the --dir flag, and a run with any of its values.
Init    == InitState /\ dir = ""
InitDir == InitState /\ dir \in DirFlags

\* A run without --dir and without --header flags.
InitProgress == Init /\ header = <<>>

\* A run that has reached its header loop (line 146) with nothing piped and
\* no batch file, carrying any short --header flag.
InitHeader ==
    /\ args \in SeqsUpTo(ArgSet, MaxArgs)
    /\ header \in AnyHeader
    /\ dir = ""
    /\ pc = "headers"
    /\ Fresh

\* A run that has reached its argument loop (line 158) with nothing piped,
\* no batch file and no --header flag, carrying any short candidate as its
\* one positional argument.
InitURL ==
    /\ args \in { << c >> : c \in AnyURL }
    /\ header = <<>>
    /\ dir = ""
    /\ pc = "args"
    /\ Fresh

\* ------------------------------------------------------ the main goroutine
\* The blocks of run in the order of its text: piped stdin (lines 126-131),
\* batch file (133-144), header flags (146-156), positional arguments
\* (158-167); after the last one run returns nil.
Order_fileFirst == << "file", "stdin", "headers", "args" >>
Order_fileLast  == << "stdin", "headers", "args", "file" >>
Order == << "stdin", "file", "headers", "args" >>

BlockPC(b) ==
    CASE b = "stdin"   -> "stdin_test"
      [] b = "file"    -> "file_open"
      [] b = "headers" -> "headers"
      [] b = "args"    -> "args"

\* Where run goes on when block b is done.
After(b) ==
    LET i == CHOOSE k \in 1..Len(Order) : Order[k] = b
    IN  IF i = Len(Order) THEN "return_nil" ELSE BlockPC(Order[i + 1])

\* run returns err to main (line 88).
Return(err) == /\ pc' = "runret" /\ runErr' = err

\* download builds the request (lines 197-205) and calls g.Do, which blocks.
\* The log of requests also notes where the candidate came from: candidate
\* number i of source s.
Request(url) == [URL |-> url, Header |-> HeaderSlice, Interval |-> Interval]

Submit_async(s, i, url) ==
    /\ dispatched' = Append(dispatched, [req |-> Request(url), src |-> s, idx |-> i])
    /\ inflight' = inflight + 1
    /\ dl' = NewDownload /\ lastCb' = "none"
    /\ pc' = pc
    /\ UNCHANGED << succeeded, bar >>

Submit(s, i, url) ==
    /\ dispatched' = Append(dispatched, [req |-> Request(url), src |-> s, idx |-> i])
    /\ inflight' = inflight + 1
    /\ dl' = NewDownload /\ lastCb' = "none"
    /\ pc' = "do"
    /\ UNCHANGED << succeeded, bar >>

Download_skipsUnparsable(s, i, url) ==
    LET n == getURL(url)
    IN  /\ src' = s /\ cur' = url
        /\ IF IsErr(n.err)
           THEN UNCHANGED << pc, runErr, engineVars, barVars, doErr >>
           ELSE /\ Submit(s, i, n.url)
                /\ UNCHANGED << runErr, doErr >>

\* download (lines 192-206) called with a candidate from source s: getURL,
\* then the blocking engine call; a parse error goes back through the caller.
Download(s, i, url) ==
    LET n == getURL(url)
    IN  /\ src' = s /\ cur' = url
        /\ IF IsErr(n.err)
           THEN /\ Return(n.err)
                /\ UNCHANGED << engineVars, barVars, doErr >>
           ELSE /\ Submit(s, i, n.url)
                /\ UNCHANGED << runErr, doErr >>

\* os.Stdin.Stat() (lines 109-112).
Stat ==
    /\ ~exited /\ pc = "stat"
    /\ \/ Return(Err("stat", <<>>))
       \/ pc' = "dir" /\ UNCHANGED runErr
    /\ UNCHANGED << inputVars, mkdirErr, barVars, readVars, src, cur, argi,
                    HeaderSlice, doErr, engineVars, outVars, exitVars,
                    sigVars, ctxVars >>

\* The --dir block (lines 114-119): when the flag names a directory that
\* does not exist, os.MkdirAll is called and whatever it returns is dropped;
\* then the --agent block (lines 121-124), which changes nothing the run
\* reads.
DirBlock ==
    /\ ~exited /\ pc = "dir"
    /\ \E exists \in BOOLEAN, e \in {Nil, Err("mkdir", <<>>)} :
          mkdirErr' = IF dir # "" /\ ~exists THEN e ELSE Nil
    /\ pc' = BlockPC(Order[1])
    /\ UNCHANGED << inputVars, barVars, readVars, src, cur, argi, HeaderSlice,
                    runErr, doErr, engineVars, outVars, exitVars, sigVars,
                    ctxVars >>

\* The test of line 127: stdin is a pipe or has content, or it is skipped.
StdinTest ==
    /\ ~exited /\ pc = "stdin_test"
    /\ \E piped \in BOOLEAN :
          pc' = IF piped THEN "scan_stdin" ELSE After("stdin")
    /\ UNCHANGED << inputVars, mkdirErr, barVars, readVars, src, cur, argi,
                    HeaderSlice, runErr, doErr, engineVars, outVars, exitVars,
                    sigVars, ctxVars >>

Lines(s)  == IF s = "stdin" THEN stdinRead ELSE fileRead
ScanPC(s) == IF s = "stdin" THEN "scan_stdin" ELSE "scan_file"

ScanLine_noskip(s) ==
    /\ ~exited /\ pc = ScanPC(s)
    /\ Len(Lines(s)) < MaxLines
    /\ \E line \in LineSet(s) :
          /\ IF s = "stdin"
             THEN stdinRead' = Append(stdinRead, line) /\ UNCHANGED fileRead
             ELSE fileRead' = Append(fileRead, line) /\ UNCHANGED stdinRead
          /\ Download(s, Len(Lines(s)) + 1, TrimSpace(line))
    /\ UNCHANGED << inputVars, mkdirErr, scanErr, argi, HeaderSlice, outVars,
                    exitVars, sigVars, ctxVars >>

\* One iteration of the loop of multiDownload (lines 173-183): the scanner
\* yields a line, a blank one is skipped, any other is downloaded.
ScanLine(s) ==
    /\ ~exited /\ pc = ScanPC(s)
    /\ Len(Lines(s)) < MaxLines
    /\ \E line \in LineSet(s) :
          /\ IF s = "stdin"
             THEN stdinRead' = Append(stdinRead, line) /\ UNCHANGED fileRead
             ELSE fileRead' = Append(fileRead, line) /\ UNCHANGED stdinRead
          /\ LET url == TrimSpace(line)
             IN  IF url = <<>>
                 THEN UNCHANGED << pc, src, cur, runErr, doErr, engineVars, barVars >>
                 ELSE Download(s, Len(Lines(s)) + 1, url)
    /\ UNCHANGED << inputVars, mkdirErr, scanErr, argi, HeaderSlice, outVars,
                    exitVars, sigVars, ctxVars >>

\* scanner.Scan() returns false, at end of input or on a read error (which
\* multiDownload never asks for): multiDownload returns nil (line 189).
ScanEnd(s) ==
    /\ ~exited /\ pc = ScanPC(s)
    /\ \E failed \in BOOLEAN : scanErr' = (scanErr \/ failed)
    /\ pc' = After(s)
    /\ UNCHANGED << inputVars, mkdirErr, barVars, stdinRead, fileRead, src,
                    cur, argi, HeaderSlice, runErr, doErr, engineVars,
                    outVars, exitVars, sigVars, ctxVars >>

\* The batch-file block (lines 134-139): no --file flag, or os.Open.
FileOpen ==
    /\ ~exited /\ pc = "file_open"
    /\ \/ pc' = After("file") /\ UNCHANGED runErr
       \/ pc' = "scan_file"   /\ UNCHANGED runErr
       \/ Return(Err("open", <<>>))
    /\ UNCHANGED << inputVars, mkdirErr, barVars, readVars, src, cur, argi,
                    HeaderSlice, doErr, engineVars, outVars, exitVars,
                    sigVars, ctxVars >>

\* The header loop (lines 146-156): every flag is split at its first colon
\* and appended to HeaderSlice; a flag without a colon ends run.
RECURSIVE HeaderLoop(_, _)
HeaderLoop(hs, acc) ==
    IF hs = <<>> THEN [err |-> Nil, slice |-> acc]
    ELSE LET split == SplitN2(Head(hs))
         IN  IF Len(split) = 1
             THEN [err |-> Err("malformatted header", Head(hs)), slice |-> acc]
             ELSE HeaderLoop(Tail(hs),
                             Append(acc, [Key   |-> split[1],
                                          Value |-> TrimSpace(split[2])]))

ParseHeaders ==
    /\ ~exited /\ pc = "headers"
    /\ LET r == HeaderLoop(header, HeaderSlice)
       IN  /\ HeaderSlice' = r.slice
           /\ IF IsErr(r.err) THEN Return(r.err)
              ELSE pc' = After("headers") /\ UNCHANGED runErr
    /\ UNCHANGED << inputVars, mkdirErr, barVars, readVars, src, cur, argi,
                    doErr, engineVars, outVars, exitVars, sigVars, ctxVars >>

\* One iteration of the loop over the positional arguments (lines 159-163).
ArgNext ==
    /\ ~exited /\ pc = "args" /\ argi < Len(args)
    /\ argi' = argi + 1
    /\ Download("args", argi + 1, args[argi + 1])
    /\ UNCHANGED << inputVars, mkdirErr, readVars, HeaderSlice, outVars,
                    exitVars, sigVars, ctxVars >>

\* The loop over the arguments ends.
ArgsDone ==
    /\ ~exited /\ pc = "args" /\ argi = Len(args)
    /\ pc' = After("args") /\ UNCHANGED runErr
    /\ UNCHANGED << inputVars, mkdirErr, barVars, readVars, src, cur, argi,
                    HeaderSlice, doErr, engineVars, outVars, exitVars,
                    sigVars, ctxVars >>

\* run returns nil (line 169).
ReturnNil ==
    /\ ~exited /\ pc = "return_nil"
    /\ Return(Nil)
    /\ UNCHANGED << inputVars, mkdirErr, barVars, readVars, src, cur, argi,
                    HeaderSlice, doErr, engineVars, outVars, exitVars,
                    sigVars, ctxVars >>

\* g.Do has returned into download, which returns its result to the loop that
\* called it: an error ends run (lines 181-183, 161-163), success prints the
\* completion marker (lines 185-186, 165-166) and goes on with the loop.
AfterDo_continues ==
    /\ ~exited /\ pc = "done"
    /\ out' = IF IsErr(doErr) THEN out ELSE Append(out, cur)
    /\ pc' = IF src = "args" THEN "args" ELSE ScanPC(src)
    /\ UNCHANGED << inputVars, mkdirErr, barVars, readVars, src, cur, argi,
                    HeaderSlice, runErr, doErr, engineVars, logged, exitVars,
                    sigVars, ctxVars >>

AfterDo_marksFailure ==
    /\ ~exited /\ pc = "done"
    /\ out' = Append(out, cur)
    /\ IF IsErr(doErr)
       THEN Return(doErr)
       ELSE /\ pc' = IF src = "args" THEN "args" ELSE ScanPC(src)
            /\ UNCHANGED runErr
    /\ UNCHANGED << inputVars, mkdirErr, barVars, readVars, src, cur, argi,
                    HeaderSlice, doErr, engineVars, logged, exitVars, sigVars,
                    ctxVars >>

AfterDo ==
    /\ ~exited /\ pc = "done"
    /\ IF IsErr(doErr)
       THEN Return(doErr) /\ UNCHANGED out
       ELSE /\ out' = Append(out, cur)
            /\ pc' = IF src = "args" THEN "args" ELSE ScanPC(src)
            /\ UNCHANGED runErr
    /\ UNCHANGED << inputVars, mkdirErr, barVars, readVars, src, cur, argi,
                    HeaderSlice, doErr, engineVars, logged, exitVars, sigVars,
                    ctxVars >>

\* main, after app.Run (lines 92-95): log.Fatal writes the error ...
MainLogFatal ==
    /\ ~exited /\ pc = "runret" /\ IsErr(runErr)
    /\ logged' = Append(logged, runErr)
    /\ pc' = "fatal"
    /\ UNCHANGED << inputVars, mkdirErr, barVars, readVars, src, cur, argi,
                    HeaderSlice, runErr, doErr, engineVars, out, exitVars,
                    sigVars, ctxVars >>

\* ... and calls os.Exit(1).
MainExit ==
    /\ ~exited /\ pc = "fatal"
    /\ exited' = TRUE /\ exitCode' = 1
    /\ UNCHANGED << inputVars, mkdirErr, barVars, readVars, mainVars,
                    engineVars, outVars, sigVars, ctxVars >>

MainReturn_deferCancel ==
    /\ ~exited /\ pc = "runret" /\ ~IsErr(runErr)
    /\ ctx' = "Cancelled" /\ cancels' = IF ctx = "Active" THEN cancels + 1 ELSE cancels
    /\ exited' = TRUE /\ exitCode' = 0
    /\ UNCHANGED << inputVars, mkdirErr, barVars, readVars, mainVars,
                    engineVars, outVars, sigVars >>

\* main returns after a nil error: the process ends with status 0, whatever
\* the listener goroutine is doing.
MainReturn ==
    /\ ~exited /\ pc = "runret" /\ ~IsErr(runErr)
    /\ exited' = TRUE /\ exitCode' = 0
    /\ UNCHANGED << inputVars, mkdirErr, barVars, readVars, mainVars,
                    engineVars, outVars, sigVars, ctxVars >>

\* -------------------------------------------------------------- the engine
\* g.Do returns: success, a failure of its own, or, once the context is
\* cancelled, the abort error.
EngineReturn ==
    /\ ~exited /\ pc = "do"
    /\ \E e \in {Nil, ErrEngine} \cup
                (IF ctx = "Cancelled" THEN {ErrDownloadAborted} ELSE {}) :
          /\ doErr' = e
          /\ succeeded' = IF e = Nil THEN succeeded + 1 ELSE succeeded
    /\ inflight' = inflight - 1
    /\ pc' = "done"
    /\ UNCHANGED << inputVars, mkdirErr, barVars, readVars, src, cur, argi,
                    HeaderSlice, runErr, dispatched, outVars, exitVars,
                    sigVars, ctxVars >>

\* ------------------------------------------------------ the progress bar
\* p.Add(num) of progressbar/v3: an error and no change while the maximum is
\* 0; otherwise the position moves by num unless it has reached the maximum.
Add(b, num) ==
    IF b.max = 0 THEN b
    ELSE IF b.currentNum < b.max
         THEN [b EXCEPT !.currentNum = @ + num]
         ELSE b

\* p.ChangeMax(newMax): sets the maximum and redraws with Add(0).
ChangeMax(b, newMax) == Add([b EXCEPT !.max = newMax], 0)

ProgressFunc_set(b, d) ==
    [ChangeMax(b, d.TotalSize) EXCEPT !.currentNum = d.Size]

\* g.ProgressFunc (lines 103-107), called with the download d.
ProgressFunc(b, d) == Add(ChangeMax(b, d.TotalSize), d.Size)

\* What the engine can report next of a download it reported as d: the total
\* size is 0 until it is known and fixed from then on, the bytes transferred
\* never go back and never pass the total.
Reports(d) ==
    { [TotalSize |-> t, Size |-> n] :
          t \in (IF d.TotalSize = 0 THEN 0..MaxBytes ELSE {d.TotalSize}),
          n \in d.Size..MaxBytes } \cap
    { r \in [TotalSize : 0..MaxBytes, Size : 0..MaxBytes] : r.Size <= r.TotalSize }

\* While g.Do runs, the engine calls ProgressFunc with the download, every
\* Interval milliseconds.
Progress ==
    /\ ~exited /\ pc = "do"
    /\ \E d \in Reports(dl) :
          /\ dl' = d
          /\ bar' = ProgressFunc(bar, d)
          /\ lastCb' = IF lastCb # "none" /\ d = dl THEN "same" ELSE "new"
    /\ UNCHANGED << inputVars, mkdirErr, readVars, mainVars, engineVars,
                    outVars, exitVars, sigVars, ctxVars >>

\* ------------------------------------------------------ signals, listener
\* The operating system delivers an interrupt (SIGINT, SIGTERM).  While
\* signal.Notify is in force the runtime sends it to interruptChan without
\* blocking, dropping it when the buffer is full (line 30); after signal.Stop
\* the default disposition is back and the signal kills the process, which
\* a shell reports as status 128 + SIGINT.
SigKilled == 128 + 2

Signal ==
    /\ ~exited
    /\ IF notifying
       THEN /\ interruptChan' = 1
            /\ UNCHANGED exitVars
       ELSE /\ exited' = TRUE /\ exitCode' = SigKilled
            /\ UNCHANGED interruptChan
    /\ UNCHANGED << inputVars, mkdirErr, barVars, readVars, mainVars,
                    engineVars, outVars, lpc, notifying, ctxVars >>

\* <-interruptChan (line 33)
ListenerRecv ==
    /\ ~exited /\ lpc = "recv" /\ interruptChan > 0
    /\ interruptChan' = interruptChan - 1
    /\ lpc' = "cancel"
    /\ UNCHANGED << inputVars, mkdirErr, barVars, readVars, mainVars,
                    engineVars, outVars, exitVars, notifying, ctxVars >>

\* cancel() (line 34): a context is cancelled once, later calls do nothing.
Cancel ==
    /\ ctx' = "Cancelled"
    /\ cancels' = IF ctx = "Active" THEN cancels + 1 ELSE cancels

ListenerCancel ==
    /\ ~exited /\ lpc = "cancel"
    /\ Cancel
    /\ lpc' = "stop"
    /\ UNCHANGED << inputVars, mkdirErr, barVars, readVars, mainVars,
                    engineVars, outVars, exitVars, interruptChan, notifying >>

\* signal.Stop(interruptChan) (line 35)
ListenerStop ==
    /\ ~exited /\ lpc = "stop"
    /\ notifying' = FALSE
    /\ lpc' = "log"
    /\ UNCHANGED << inputVars, mkdirErr, barVars, readVars, mainVars,
                    engineVars, outVars, exitVars, interruptChan, ctxVars >>

\* log.Fatal(got.ErrDownloadAborted) (line 36) writes the error ...
ListenerLogFatal ==
    /\ ~exited /\ lpc = "log"
    /\ logged' = Append(logged, ErrDownloadAborted)
    /\ lpc' = "exit"
    /\ UNCHANGED << inputVars, mkdirErr, barVars, readVars, mainVars,
                    engineVars, out, exitVars, interruptChan, notifying,
                    ctxVars >>

\* ... and calls os.Exit(1).
ListenerExit ==
    /\ ~exited /\ lpc = "exit"
    /\ exited' = TRUE /\ exitCode' = 1
    /\ UNCHANGED << inputVars, mkdirErr, barVars, readVars, mainVars,
                    engineVars, outVars, sigVars, ctxVars >>

\* ---------------------------------------------------------- specifications
\* A run in which no signal arrives: the main goroutine and the engine.
NextRun ==
    \/ Stat
    \/ DirBlock
    \/ StdinTest
    \/ ScanLine("stdin")
    \/ ScanEnd("stdin")
    \/ FileOpen
    \/ ScanLine("file")
    \/ ScanEnd("file")
    \/ ParseHeaders
    \/ ArgNext
    \/ ArgsDone
    \/ ReturnNil
    \/ EngineReturn
    \/ AfterDo
    \/ MainLogFatal
    \/ MainExit
    \/ MainReturn

SpecRun == Init /\ [][NextRun]_vars

\* The same run with any value of the --dir flag.
SpecDir == InitDir /\ [][NextRun]_vars

\* The same run with the progress reports of the engine, which change the
\* bar and nothing that run or the listener reads.
NextProgress == NextRun \/ Progress
SpecProgress == InitProgress /\ [][NextProgress]_vars

\* The run from its header loop on, over every short --header flag.
NextHeader ==
    \/ ParseHeaders
    \/ ArgNext
    \/ ArgsDone
    \/ ReturnNil
    \/ EngineReturn
    \/ AfterDo
    \/ MainLogFatal
    \/ MainExit
    \/ MainReturn

SpecHeader == InitHeader /\ [][NextHeader]_vars

\* The run from its argument loop on, over every short candidate.
NextURL ==
    \/ ArgNext
    \/ ArgsDone
    \/ ReturnNil
    \/ EngineReturn
    \/ AfterDo
    \/ MainLogFatal
    \/ MainExit
    \/ MainReturn

SpecURL == InitURL /\ [][NextURL]_vars

\* The whole process: the run, the signals and the listener goroutine.
Next ==
    \/ NextRun
    \/ Signal
    \/ ListenerRecv
    \/ ListenerCancel
    \/ ListenerStop
    \/ ListenerLogFatal
    \/ ListenerExit

Spec == Init /\ [][Next]_vars

\* ================================================================== claims
Rank(s) == CASE s = "stdin" -> 1 [] s = "file" -> 2 [] s = "args" -> 3

\* The candidates of a line source: its non-blank lines, trimmed, in order.
RECURSIVE NonBlank(_)
NonBlank(ls) ==
    IF ls = <<>> THEN <<>>
    ELSE (IF TrimSpace(Head(ls)) = <<>> THEN <<>> ELSE << TrimSpace(Head(ls)) >>)
         \o NonBlank(Tail(ls))

\* getURL on every candidate a run can meet, computed once.
Candidates == {TrimSpace(l) : l \in LineSet("stdin") \cup LineSet("file")} \cup ArgSet
URLOf      == [c \in Candidates |-> getURL(c)]

\* The candidates of the run so far in aggregation order, and their URLs.
Aggregate      == NonBlank(stdinRead) \o NonBlank(fileRead) \o args
Normalized(cs) == [i \in 1..Len(cs) |-> URLOf[cs[i]].url]
DispatchedURLs == [i \in 1..Len(dispatched) |-> dispatched[i].req.URL]
SrcsOf(ds)     == [i \in 1..Len(ds) |-> ds[i].src]

\* C1: the URLs submitted to the engine are, at every moment, the first URLs
\* of the aggregation (non-blank stdin lines, then non-blank batch-file lines,
\* then the positional arguments, each in its own order); submissions never
\* go back to an earlier source or an earlier line; and a run that ends with
\* status 0 has submitted the whole aggregation.
AggregationOrder ==
    /\ Len(dispatched) <= Len(Aggregate)
    /\ DispatchedURLs = SubSeq(Normalized(Aggregate), 1, Len(dispatched))
    /\ \A i, j \in 1..Len(dispatched) :
          i < j => \/ Rank(dispatched[i].src) < Rank(dispatched[j].src)
                   \/ /\ dispatched[i].src = dispatched[j].src
                      /\ dispatched[i].idx < dispatched[j].idx
    /\ (exited /\ exitCode = 0) => Len(dispatched) = Len(Aggregate)

\* A run over stdin [a, a], file [b], arguments [d] that ended with status 0.
AggregationOrderWitness ==
    /\ exited /\ exitCode = 0
    /\ SrcsOf(dispatched) = << "stdin", "stdin", "file", "args" >>

\* C2: once the engine has returned an error for a URL, nothing more is ever
\* submitted to the engine, and what run returns (and main logs) is that
\* very error.
FailFast ==
    /\ [](IsErr(doErr) =>
            /\ pc \in {"done", "runret", "fatal"}
            /\ pc # "done" => runErr = doErr
            /\ pc = "fatal" => \E i \in 1..Len(logged) : logged[i] = doErr)
    /\ [][IsErr(doErr) => (dispatched' = dispatched /\ doErr' = doErr)]_vars

\* The second URL of stdin failed in the engine, main has logged the error,
\* and the positional argument was never submitted.
FailFastWitness ==
    /\ pc = "fatal" /\ runErr = ErrEngine
    /\ SrcsOf(dispatched) = << "stdin", "stdin" >>
    /\ args # <<>> /\ header = <<>>

\* C3: at most one request is in the engine's hands, and exactly while the
\* main goroutine is blocked in g.Do.
OneInFlight ==
    /\ inflight \in {0, 1}
    /\ inflight = 1 <=> pc = "do"

\* The main goroutine is blocked in its third submission.
OneInFlightWitness ==
    /\ pc = "do" /\ inflight = 1 /\ Len(dispatched) = 3

\* A --header flag without a colon is among the flags.
HasMalformed(hs) == \E i \in 1..Len(hs) : IndexOf(hs[i], ":") = 0

\* The header list the flags stand for.
ParsedHeaders == HeaderLoop(header, <<>>).slice

\* C4: in a run whose --header flags hold a flag without a colon, no URL of
\* any source is ever submitted to the engine.
MalformedHeaderBeforeAnyDownload ==
    HasMalformed(header) => dispatched = <<>>

\* C5: every request submitted during a run carries the complete list parsed
\* from all --header flags, whichever source its URL came from.
EveryRequestCarriesAllHeaders ==
    ~HasMalformed(header) =>
        \A i \in 1..Len(dispatched) : dispatched[i].req.Header = ParsedHeaders

AbortLines == Cardinality({i \in 1..Len(logged) : logged[i] = ErrDownloadAborted})

\* C6: a process that ends by itself (not killed by a later signal) after its
\* context was cancelled has made exactly one Active-to-Cancelled transition
\* and has written exactly one abort line.
CancelObservedOnce ==
    (exited /\ exitCode # SigKilled /\ ctx = "Cancelled")
        => (cancels = 1 /\ AbortLines = 1)

\* An interrupt has reached interruptChan.
SignalReceived == interruptChan > 0 \/ lpc # "recv"

\* C7: a process that has received an interrupt while it was running ends
\* with a non-zero status.
InterruptExitsNonZero ==
    (exited /\ SignalReceived) => exitCode # 0

\* C8: the context is Active or Cancelled; Cancelled is never left; and the
\* only step that cancels it is the listener's cancel() (line 34), a step in
\* which the main goroutine does not move.
OnlyListenerCancels ==
    /\ [](/\ ctx \in {"Active", "Cancelled"}
          /\ cancels = IF ctx = "Cancelled" THEN 1 ELSE 0)
    /\ [][/\ ctx = "Cancelled" => ctx' = "Cancelled"
          /\ ctx' # ctx => (lpc = "cancel" /\ lpc' = "stop" /\ UNCHANGED mainVars)]_vars

\* The context was cancelled during a download, the engine returned the abort
\* error and the main goroutine went through its own failure path.
OnlyListenerCancelsWitness ==
    /\ ctx = "Cancelled" /\ cancels = 1
    /\ pc = "fatal" /\ runErr = ErrDownloadAborted

\* The lines of source s that are candidates the engine is given: non-blank
\* after trimming, and accepted by getURL.
RECURSIVE GoodIdx(_, _)
GoodIdx(ls, i) ==
    IF i > Len(ls) THEN <<>>
    ELSE (IF TrimSpace(ls[i]) # <<>> /\ ~IsErr(URLOf[TrimSpace(ls[i])].err)
          THEN << i >> ELSE <<>>) \o GoodIdx(ls, i + 1)

FromSource(s) == SelectSeq(dispatched, LAMBDA d : d.src = s)

\* C9: of the lines a scanner has yielded, exactly the non-blank ones have
\* been submitted, each once, in order, as the URL of its trimmed text; no
\* blank line is submitted and no completion marker is blank.
BlankLinesNeverDispatched ==
    /\ \A s \in {"stdin", "file"} :
          LET ds == FromSource(s)
          IN  /\ [k \in 1..Len(ds) |-> ds[k].idx] = GoodIdx(Lines(s), 1)
              /\ \A k \in 1..Len(ds) :
                    /\ TrimSpace(Lines(s)[ds[k].idx]) # <<>>
                    /\ ds[k].req.URL = URLOf[TrimSpace(Lines(s)[ds[k].idx])].url
    /\ Len(out) <= Len(dispatched)
    /\ \A k \in 1..Len(out) :
          /\ out[k] # <<>>
          /\ dispatched[k].src # "args"
                => out[k] = TrimSpace(Lines(dispatched[k].src)[dispatched[k].idx])

\* Stdin gave an empty line and then " a\t", the batch file a line of white
\* space and then "b": two submissions, two markers.
BlankLinesNeverDispatchedWitness ==
    /\ stdinRead = << <<>>, <<" ", "a", "\t">> >>
    /\ fileRead = << <<"\t", " ">>, <<"b">> >>
    /\ out = << <<"a">>, <<"b">> >>
    /\ Len(dispatched) = 2

\* No interrupt has been delivered.
NoInterrupt == ~SignalReceived

\* Every source was read to its end and every loop of run ran to its end.
AllSourcesExhausted == ~scanErr /\ pc = "runret" /\ runErr = Nil

\* C10: without interrupt, the process ends with status 0 exactly when all
\* sources are exhausted and every download succeeded; otherwise it ends
\* non-zero with the error of run logged.
ExitStatusWithoutInterrupt ==
    (exited /\ NoInterrupt) =>
        /\ exitCode = 0 <=> (AllSourcesExhausted /\ ~IsErr(doErr))
        /\ exitCode # 0 => (IsErr(runErr) /\ logged = << runErr >>)

\* os.Open of the batch file has failed and run has returned its error.
OpenFailed == runErr = Err("open", <<>>)

\* C11, as claimed: when the batch file cannot be opened, no download at all
\* has been submitted in the run.
OpenFailureBeforeAnyDispatch ==
    OpenFailed => dispatched = <<>>

\* C11, amended: when the batch file cannot be opened, run returns the open
\* error and stops; no batch-file line and no positional argument has been
\* submitted, only the lines of piped stdin, which run reads first.
OpenFailureStopsLaterSources ==
    OpenFailed =>
        /\ pc \in {"runret", "fatal"} /\ inflight = 0
        /\ fileRead = <<>> /\ argi = 0
        /\ \A i \in 1..Len(dispatched) : dispatched[i].src = "stdin"
        /\ pc = "fatal" => logged = << runErr >>

\* Stdin was piped and a line of it downloaded, there is a positional
\* argument, and the batch file did not open.
OpenFailureStopsLaterSourcesWitness ==
    /\ OpenFailed /\ pc = "fatal"
    /\ Len(dispatched) = 1 /\ out = << <<"a">> >>
    /\ args # <<>>

\* C12, as claimed: after a progress callback of the current download the
\* position of the bar is the number of bytes that callback reported.
PositionIsBytesTransferred ==
    (pc = "do" /\ lastCb # "none") => bar.currentNum = dl.Size

\* C13: no step lowers the position of the bar, and a callback that repeats
\* the values of the one before it leaves the position where it was or moves
\* it forward.
PositionNeverDecreases ==
    [][/\ bar'.currentNum >= bar.currentNum
       /\ bar' # bar => (pc = "do" /\ lastCb' # "none")]_vars

\* In the second download of a run a callback has repeated the values of the
\* one before it, and the bar is off zero.
PositionNeverDecreasesWitness ==
    /\ pc = "do" /\ lastCb = "same"
    /\ Len(dispatched) = 2
    /\ bar.currentNum > 0 /\ bar.max > 0

\* v is r without its leading whitespace; v is r without its leading and
\* trailing whitespace.
IsLeftTrimOf(v, r) ==
    \E a \in 0..Len(r) :
        /\ v = SubSeq(r, a + 1, Len(r))
        /\ \A j \in 1..a : r[j] \in WhiteSpace
        /\ v = <<>> \/ v[1] \notin WhiteSpace

IsTrimOf(v, r) ==
    \E a \in 0..Len(r), b \in 0..Len(r) :
        /\ a + b <= Len(r)
        /\ v = SubSeq(r, a + 1, Len(r) - b)
        /\ \A j \in 1..a : r[j] \in WhiteSpace
        /\ \A j \in (Len(r) - b + 1)..Len(r) : r[j] \in WhiteSpace
        /\ v = <<>> \/ (v[1] \notin WhiteSpace /\ v[Len(v)] \notin WhiteSpace)

HasColon(h) == \E i \in 1..Len(h) : h[i] = ":"

\* The number of --header flags before the first one without a colon.
WellFormedPrefix ==
    IF \A i \in 1..Len(header) : HasColon(header[i]) THEN Len(header)
    ELSE (CHOOSE i \in 1..Len(header) :
              /\ ~HasColon(header[i])
              /\ \A j \in 1..(i - 1) : HasColon(header[j])) - 1

\* The header loop has run: one entry per flag up to the first flag without
\* a colon, each with the text before the first colon of its flag as key and
\* a value that stands in relation Trim to the text after that colon; a flag
\* without a colon has ended run with the format error that names it, and
\* has no entry.
HeaderResult(Trim(_, _)) ==
    pc # "headers" =>
        /\ Len(HeaderSlice) = WellFormedPrefix
        /\ \A i \in 1..WellFormedPrefix :
              \E c \in 1..Len(header[i]) :
                  /\ header[i][c] = ":"
                  /\ \A j \in 1..(c - 1) : header[i][j] # ":"
                  /\ HeaderSlice[i].Key = SubSeq(header[i], 1, c - 1)
                  /\ Trim(HeaderSlice[i].Value,
                          SubSeq(header[i], c + 1, Len(header[i])))
        /\ IF WellFormedPrefix < Len(header)
           THEN runErr = Err("malformatted header", header[WellFormedPrefix + 1])
           ELSE runErr.kind # "malformatted header"

\* C14, as claimed: the value of an entry is the text after the first colon
\* with its leading whitespace trimmed.
HeaderValueLeftTrimmed == HeaderResult(IsLeftTrimOf)

\* C14, amended: the value of an entry is the text after the first colon
\* with its leading and its trailing whitespace trimmed.
HeaderValueTrimmed == HeaderResult(IsTrimOf)

\* The flag ":: " after a well-formed one: its entry has the empty key and
\* the value ":", the later colon kept and the trailing blank gone, and a
\* request carries both entries.
HeaderValueTrimmedWitness ==
    /\ header = << GoodHeader, << ":", ":", " " >> >>
    /\ Len(HeaderSlice) = 2
    /\ HeaderSlice[2] = [Key |-> <<>>, Value |-> << ":" >>]
    /\ Len(dispatched) = 1 /\ dispatched[1].req.Header = HeaderSlice

\* The explicit scheme of a candidate: the text before its first colon when
\* that text is a letter followed by letters and digits; none otherwise.
SchemeOf(c) ==
    IF \E i \in 2..Len(c) :
           /\ c[i] = ":" /\ c[1] \in Letters
           /\ \A j \in 1..(i - 1) : c[j] \in Letters \cup Digits
    THEN SubSeq(c, 1, IndexOf(c, ":") - 1)
    ELSE <<>>

\* C15, as claimed: the URL submitted for a candidate without a scheme has
\* the scheme https, the URL submitted for a candidate with a scheme has that
\* scheme, and getURL applied to a submitted URL returns it unchanged.
NormalizerSchemePolicyAndIdempotence ==
    \A k \in 1..Len(dispatched) :
        LET c == args[dispatched[k].idx]
            u == dispatched[k].req.URL
        IN  /\ SchemeOf(c) = <<>> => HasPrefix(u, Https \o << ":" >>)
            /\ SchemeOf(c) # <<>> => HasPrefix(u, SchemeOf(c) \o << ":" >>)
            /\ getURL(u) = [err |-> Nil, url |-> u]

\* The candidate download was last called with did not parse.
ParseFailed == cur # <<>> /\ IsErr(URLOf[cur].err)

\* The position in its source of the candidate download was last called with.
CurIdx == IF src = "args" THEN argi ELSE Len(Lines(src))

\* C16: a candidate that fails URL parsing ends the run: run has returned the
\* parse error of that candidate, the engine was never called for it and no
\* marker was printed for it, and from then on nothing is read from any
\* source, nothing is submitted and nothing is printed.
ParseFailureIsTerminal ==
    /\ [](ParseFailed =>
            /\ pc \in {"runret", "fatal"}
            /\ runErr = URLOf[cur].err /\ runErr = Err("parse", cur)
            /\ inflight = 0
            /\ \A i \in 1..Len(dispatched) :
                  ~(dispatched[i].src = src /\ dispatched[i].idx = CurIdx)
            /\ Len(out) = Len(dispatched)
            /\ \A s \in {"stdin", "file", "args"} :
                  Rank(s) > Rank(src) =>
                      (IF s = "args" THEN argi = 0 ELSE Lines(s) = <<>>))
    /\ [][ParseFailed => UNCHANGED << readVars, argi, cur, dispatched, out, runErr >>]_vars

\* A line of the batch file did not parse after an earlier candidate was
\* downloaded; an argument is still waiting; the process ends with status 1.
ParseFailureIsTerminalWitness ==
    /\ ParseFailed /\ src = "file"
    /\ Len(dispatched) = 1 /\ args # <<>>
    /\ exited /\ exitCode = 1

\* The candidate a request was made from: the trimmed line or the argument
\* at the position the request notes.
CandidateOf(r) ==
    IF r.src = "args" THEN args[r.idx] ELSE TrimSpace(Lines(r.src)[r.idx])

\* g.Do has returned nil and the marker of that URL is not printed yet.
MarkerDue == IF pc = "done" /\ doErr = Nil THEN 1 ELSE 0

\* C17: the markers printed are those of the engine calls that returned nil,
\* one each, in the order of the calls, each naming the candidate of its
\* call; a marker is printed only by the step that follows a nil return of
\* g.Do, and no candidate is read or submitted while a marker is due; after a
\* failed call no marker is printed.
MarkersMatchSuccesses ==
    /\ [](/\ Len(out) = succeeded - MarkerDue
          /\ Len(out) <= Len(dispatched)
          /\ \A k \in 1..Len(out) : out[k] = CandidateOf(dispatched[k])
          /\ IsErr(doErr) => Len(out) = Len(dispatched) - 1)
    /\ [][/\ out' # out =>
                /\ pc = "done" /\ doErr = Nil
                /\ out' = Append(out, cur)
                /\ cur = CandidateOf(dispatched[Len(dispatched)])
          /\ (dispatched' # dispatched \/ argi' # argi \/ stdinRead' # stdinRead
              \/ fileRead' # fileRead \/ cur' # cur) => Len(out) = succeeded
          /\ IsErr(doErr) => out' = out]_vars

\* Two downloads succeeded and got their markers, the third failed and got
\* none, and the process has ended.
MarkersMatchSuccessesWitness ==
    /\ exited /\ exitCode = 1
    /\ Len(dispatched) = 3 /\ succeeded = 2 /\ Len(out) = 2
    /\ doErr = ErrEngine

\* C18, as claimed: when --dir names a directory that does not exist and
\* os.MkdirAll fails, no download is submitted to the engine in that run.
MkdirFailureBlocksDispatch ==
    IsErr(mkdirErr) => dispatched = <<>>

\* C19, as claimed: once a scanner has stopped on a read error, run has
\* failed with an error, so no download of a later source or of the
\* positional arguments is in the engine.
ReadErrorEndsDispatch ==
    scanErr => (inflight = 0 /\ pc # "do")

\* C20, as claimed: once the listener has cancelled the run context, no step
\* of the main goroutine submits a request to the engine.
NoDispatchAfterCancel ==
    [][ctx = "Cancelled" => dispatched' = dispatched]_vars

====
